---- MODULE Spec2Model ----
(***************************************************************************)
(* Model of lighthouse-core/audits/bootup-time.js: the BootupTime audit.   *)
(*                                                                         *)
(* Units.  selfTime values of the grouping tree are integers counting      *)
(* hundredths of a millisecond; the durations the extractor produces with  *)
(* Number(x.toFixed(1)) are integers counting tenths of a millisecond.     *)
(* Floating-point rounding error of the additions is not modelled.         *)
(*                                                                         *)
(* An absent value (JavaScript undefined) of selfTime is the empty tuple,  *)
(* a present one is a 1-tuple.  The property key that JavaScript derives   *)
(* from the value undefined is the string "undefined".                     *)
(*                                                                         *)
(* Task labels are taken not to be names of properties that every object   *)
(* inherits (such as "constructor"), so that a label that is no key of     *)
(* taskToGroup looks up as undefined.                                      *)
(***************************************************************************)
EXTENDS Integers, Sequences, FiniteSets, TLC

\* ------------------------------------------------------------------------
\* Bounds of the model
\* ------------------------------------------------------------------------

\* Largest number of URL nodes of the grouping tree.
MaxUrls == 2

\* Largest number of task nodes of the grouping tree, all URLs together.
MaxTasks == 2

\* ------------------------------------------------------------------------
\* Module-level data of bootup-time.js
\* ------------------------------------------------------------------------

group ==
  [loading            |-> "Network request loading",
   parseHTML          |-> "Parsing DOM",
   styleLayout        |-> "Style & Layout",
   compositing        |-> "Compositing",
   painting           |-> "Paint",
   gpu                |-> "GPU",
   scripting          |-> "Script Evaluation",
   scriptParseCompile |-> "Script Parsing & Compile",
   scriptGC           |-> "Garbage collection",
   other              |-> "Other",
   images             |-> "Images"]

taskToGroup ==
  [t \in {"Animation", "Async Task", "Frame Start", "Frame Start (main thread)",
          "Cancel Animation Frame", "Cancel Idle Callback", "Compile Script",
          "Composite Layers", "Console Time", "Image Decode", "Draw Frame",
          "Embedder Callback", "Evaluate Script", "Event", "Animation Frame Fired",
          "Fire Idle Callback", "Function Call", "DOM GC", "GC Event", "GPU",
          "Hit Test", "Invalidate Layout", "JS Frame", "Input Latency", "Layout",
          "Major GC", "DOMContentLoaded event", "First paint", "FMP",
          "FMP candidate", "Load event", "Minor GC", "Paint", "Paint Image",
          "Paint Setup", "Parse Stylesheet", "Parse HTML", "Parse Script", "Other",
          "Rasterize Paint", "Recalculate Style", "Request Animation Frame",
          "Request Idle Callback", "Request Main Thread Frame", "Image Resize",
          "Finish Loading", "Receive Data", "Receive Response", "Send Request",
          "Run Microtasks", "Schedule Style Recalculation", "Scroll", "Task",
          "Timer Fired", "Install Timer", "Remove Timer", "Timestamp",
          "Update Layer", "Update Layer Tree", "User Timing", "Create WebSocket",
          "Destroy WebSocket", "Receive WebSocket Handshake",
          "Send WebSocket Handshake", "XHR Load", "XHR Ready State Change"} |->
     CASE t \in {"Animation", "Frame Start", "Frame Start (main thread)",
                 "Draw Frame", "First paint", "FMP", "FMP candidate", "Paint",
                 "Paint Setup", "Rasterize Paint", "Request Main Thread Frame"}
            -> group.painting
       [] t \in {"Async Task", "Other", "Task"}
            -> group.other
       [] t \in {"Compile Script", "Parse Script"}
            -> group.scriptParseCompile
       [] t \in {"Composite Layers", "Hit Test", "Scroll", "Update Layer",
                 "Update Layer Tree"}
            -> group.compositing
       [] t \in {"Image Decode", "Paint Image", "Image Resize"}
            -> group.images
       [] t \in {"DOM GC", "GC Event", "Major GC", "Minor GC"}
            -> group.scriptGC
       [] t \in {"GPU"}
            -> group.gpu
       [] t \in {"Invalidate Layout", "Layout", "Recalculate Style",
                 "Schedule Style Recalculation"}
            -> group.styleLayout
       [] t \in {"Parse Stylesheet", "Parse HTML"}
            -> group.parseHTML
       [] t \in {"Finish Loading", "Receive Data", "Receive Response",
                 "Send Request"}
            -> group.loading
       [] OTHER
            -> group.scripting]

\* The property key of the value undefined.
UndefinedKey == "undefined"

\* Variant: a label that is no key falls into the category "Other".
TaskToGroupLookupOther(task) ==
  IF task \in DOMAIN taskToGroup THEN taskToGroup[task] ELSE group.other

\* taskToGroup[task]: the category, or undefined for a label that is no key.
TaskToGroupLookup(task) ==
  IF task \in DOMAIN taskToGroup THEN taskToGroup[task] ELSE UndefinedKey

\* The pass/fail cutoff of the audit, in milliseconds.
BootupThresholdMs == 4000

\* ------------------------------------------------------------------------
\* Inputs: the tree bottomUpGroupBy('URL') returns
\* ------------------------------------------------------------------------

Urls == {"", "about:blank", "https://a.test/script.js", "https://b.test/app.js"}

\* The task nodes of the model: a label and a selfTime, which is absent,
\* 0.06 ms, 0.14 ms or 3999.96 ms.  "Mystery Task" is no key of taskToGroup.
TaskNodes ==
  {[title |-> "Evaluate Script", selfTime |-> <<399996>>],
   [title |-> "Evaluate Script", selfTime |-> <<6>>],
   [title |-> "Function Call",   selfTime |-> <<14>>],
   [title |-> "Parse Script",    selfTime |-> <<>>],
   [title |-> "Parse Script",    selfTime |-> <<14>>],
   [title |-> "Mystery Task",    selfTime |-> <<399996>>],
   [title |-> "Mystery Task",    selfTime |-> <<>>]}

\* The sequences of distinct keys of the URL Map, in iteration order.
UrlSeqs ==
  {us \in UNION {[1..n -> Urls] : n \in 0..MaxUrls} :
     \A i, j \in 1..Len(us) : i # j => us[i] # us[j]}

\* Number of task nodes under a URL node: -1 stands for a node whose
\* children collection is missing.
ChildCount(c) == IF c < 0 THEN 0 ELSE c

RECURSIVE CountBefore(_, _)
\* Number of task nodes under the URL nodes before the i-th.
CountBefore(counts, i) ==
  IF i <= 1 THEN 0
  ELSE CountBefore(counts, i - 1) + ChildCount(counts[i - 1])

\* The tree with keys us whose i-th node has counts[i] children, taken in
\* order from tasks.
TreeOf(us, counts, tasks) ==
  [i \in 1..Len(us) |->
     [url |-> us[i],
      hasChildren |-> counts[i] >= 0,
      children |-> SubSeq(tasks, CountBefore(counts, i) + 1,
                          CountBefore(counts, i) + ChildCount(counts[i]))]]

\* ------------------------------------------------------------------------
\* Helpers
\* ------------------------------------------------------------------------

\* The function with no argument: {} and [] before any property is set.
EmptyMap == [k \in {} |-> 0]

\* obj[key] || 0 of an object whose values are numbers.
GetOrZero(obj, key) == IF key \in DOMAIN obj THEN obj[key] ELSE 0

RECURSIVE SumDurations(_)
\* Sum of the values of an ordered object <<<<key, value>>, ...>>.
SumDurations(durations) ==
  IF durations = <<>> THEN 0
  ELSE durations[1][2] + SumDurations(Tail(durations))

RECURSIVE SumValues(_)
\* Sum of the values of a function.
SumValues(f) ==
  IF DOMAIN f = {} THEN 0
  ELSE LET k == CHOOSE x \in DOMAIN f : TRUE
       IN  f[k] + SumValues([x \in DOMAIN f \ {k} |-> f[x]])

\* ------------------------------------------------------------------------
\* Util.formatMilliseconds (report/v2/renderer/util.js)
\* ------------------------------------------------------------------------

\* Three digits, zero padded: a group of toLocaleString after the first.
ThreeDigits(n) ==
  IF n < 10 THEN "00" \o ToString(n)
  ELSE IF n < 100 THEN "0" \o ToString(n)
  ELSE ToString(n)

RECURSIVE ToLocaleString(_)
\* Number.prototype.toLocaleString of a natural number, en-US grouping.
ToLocaleString(n) ==
  IF n < 1000 THEN ToString(n)
  ELSE ToLocaleString(n \div 1000) \o "," \o ThreeDigits(n % 1000)

\* formatMilliseconds(ms, granularity): ms in tenths of a millisecond,
\* granularity in milliseconds; Math.round rounds a half upwards.
formatMilliseconds(tenths, granularity) ==
  LET coarseTime == ((tenths + 5 * granularity) \div (10 * granularity)) * granularity
  IN  ToLocaleString(coarseTime) \o " ms"

\* ------------------------------------------------------------------------
\* BootupTime.getExecutionTimingsByURL
\* ------------------------------------------------------------------------

\* Number((selfTime || 0).toFixed(1)), in tenths of a millisecond.
ToFixed1(selfTime) ==
  IF selfTime = <<>> THEN 0 ELSE (selfTime[1] + 5) \div 10

\* tasks[title] = tasks[title] || 0; tasks[title] += d, on an object kept as
\* the sequence of its <<key, value>> pairs in insertion order.
AddToTasks(tasks, title, d) ==
  IF \E i \in 1..Len(tasks) : tasks[i][1] = title
  THEN [i \in 1..Len(tasks) |->
          IF tasks[i][1] = title THEN <<title, tasks[i][2] + d>> ELSE tasks[i]]
  ELSE Append(tasks, <<title, d>>)

RECURSIVE TasksOfChildren(_, _)
\* perUrlNode.children.forEach(...): the tasks object after the children.
TasksOfChildren(children, tasks) ==
  IF children = <<>> THEN tasks
  ELSE TasksOfChildren(Tail(children),
                       AddToTasks(tasks, children[1].title,
                                  ToFixed1(children[1].selfTime)))

\* Variant: only the empty key is skipped.
SkipsUrlEmptyOnly(url) == url = ""

\* if (!url || url === 'about:blank') return;
SkipsUrl(url) == url = "" \/ url = "about:blank"

RECURSIVE ExecutionTimings(_)
\* The Map of getExecutionTimingsByURL as the sequence of its entries.
ExecutionTimings(nodes) ==
  IF nodes = <<>> THEN <<>>
  ELSE IF SkipsUrl(nodes[1].url) THEN ExecutionTimings(Tail(nodes))
  ELSE <<[url |-> nodes[1].url,
          durations |-> TasksOfChildren(nodes[1].children, <<>>)]>>
       \o ExecutionTimings(Tail(nodes))

\* perUrlNode.children.forEach throws a TypeError when children is undefined.
ThrowsTypeError(nodes) ==
  \E i \in 1..Len(nodes) : ~SkipsUrl(nodes[i].url) /\ ~nodes[i].hasChildren

\* ------------------------------------------------------------------------
\* State
\* ------------------------------------------------------------------------

VARIABLES
  tree,             \* bottomUpByName.children, in iteration order
  pc,               \* position of audit()
  bootupTimings,    \* the Map getExecutionTimingsByURL returned
  urlIndex,         \* index of the entry the map() callback works on
  taskIndex,        \* index of the key the inner forEach works on
  totalBootupTime,
  extendedInfo,
  headings,
  groups,           \* the groups array of the running callback
  groupsPerUrl,
  results,
  auditResult

vars == <<tree, pc, bootupTimings, urlIndex, taskIndex, totalBootupTime,
          extendedInfo, headings, groups, groupsPerUrl, results, auditResult>>

NoResult ==
  [score |-> FALSE, rawValue |-> 0, displayValue |-> "",
   details |-> [headings |-> <<>>, items |-> <<>>],
   extendedInfo |-> [value |-> EmptyMap]]

Init ==
  /\ \E us \in UrlSeqs :
       \E counts \in [1..Len(us) -> -1..MaxTasks] :
         /\ CountBefore(counts, Len(us) + 1) <= MaxTasks
         /\ \E tasks \in [1..CountBefore(counts, Len(us) + 1) -> TaskNodes] :
              tree = TreeOf(us, counts, tasks)
  /\ pc = "getExecutionTimingsByURL"
  /\ bootupTimings = <<>>
  /\ urlIndex = 1
  /\ taskIndex = 1
  /\ totalBootupTime = 0
  /\ extendedInfo = EmptyMap
  /\ headings = <<[key |-> "url", itemType |-> "url", text |-> "URL"]>>
  /\ groups = EmptyMap
  /\ groupsPerUrl = <<>>
  /\ results = <<>>
  /\ auditResult = NoResult

\* ------------------------------------------------------------------------
\* BootupTime.audit
\* ------------------------------------------------------------------------

\* const bootupTimings = BootupTime.getExecutionTimingsByURL(trace);
GetExecutionTimingsByURL ==
  /\ pc = "getExecutionTimingsByURL"
  /\ IF ThrowsTypeError(tree)
     THEN /\ pc' = "TypeError"
          /\ UNCHANGED bootupTimings
     ELSE /\ pc' = "map"
          /\ bootupTimings' = ExecutionTimings(tree)
  /\ UNCHANGED <<tree, urlIndex, taskIndex, totalBootupTime, extendedInfo,
                 headings, groups, groupsPerUrl, results, auditResult>>

\* The map() callback starts on an entry: extendedInfo[url] = durations;
\* const groups = [];
BeginUrl ==
  /\ pc = "map"
  /\ urlIndex <= Len(bootupTimings)
  /\ LET entry == bootupTimings[urlIndex]
     IN  extendedInfo' =
           [u \in DOMAIN extendedInfo \cup {entry.url} |->
              IF u = entry.url THEN entry.durations ELSE extendedInfo[u]]
  /\ groups' = EmptyMap
  /\ taskIndex' = 1
  /\ pc' = "forEach"
  /\ UNCHANGED <<tree, bootupTimings, urlIndex, totalBootupTime, headings,
                 groupsPerUrl, results, auditResult>>

HasHeading(hs, key) == \E h \in 1..Len(hs) : hs[h].key = key

\* Variant: = in place of +=.
AssignTotal(total, d) == d

\* totalBootupTime += durations[task];
AddToTotal(total, d) == total + d

\* Variant: = in place of +=.
AssignGroup(gs, g, d) ==
  [k \in DOMAIN gs \cup {g} |-> IF k = g THEN d ELSE gs[k]]

\* Variant: a duration of 0 sets no property.
AddToGroupsUnlessZero(gs, g, d) ==
  IF d = 0 THEN gs
  ELSE [k \in DOMAIN gs \cup {g} |->
          IF k = g THEN GetOrZero(gs, g) + d ELSE gs[k]]

\* groups[group] = groups[group] || 0; groups[group] += durations[task];
AddToGroups(gs, g, d) ==
  [k \in DOMAIN gs \cup {g} |->
     IF k = g THEN GetOrZero(gs, g) + d ELSE gs[k]]

\* Variant: the heading is pushed without the find.
PushHeadingAlways(hs, g) ==
  Append(hs, [key |-> g, itemType |-> "text", text |-> g])

\* Variant: a new heading is inserted right after "url".
PushHeadingSecond(hs, g) ==
  IF HasHeading(hs, g) THEN hs
  ELSE <<hs[1], [key |-> g, itemType |-> "text", text |-> g]>> \o Tail(hs)

\* if (!headings.find(heading => heading.key === group)) headings.push(...)
PushHeading(hs, g) ==
  IF HasHeading(hs, g) THEN hs
  ELSE Append(hs, [key |-> g, itemType |-> "text", text |-> g])

\* One call of the Object.keys(durations).forEach callback.
AggregateTask ==
  /\ pc = "forEach"
  /\ taskIndex <= Len(bootupTimings[urlIndex].durations)
  /\ LET task == bootupTimings[urlIndex].durations[taskIndex][1]
         d    == bootupTimings[urlIndex].durations[taskIndex][2]
         g    == TaskToGroupLookup(task)
     IN  /\ totalBootupTime' = AddToTotal(totalBootupTime, d)
         /\ groups' = AddToGroups(groups, g, d)
         /\ headings' = PushHeading(headings, g)
  /\ taskIndex' = taskIndex + 1
  /\ UNCHANGED <<tree, pc, bootupTimings, urlIndex, extendedInfo, groupsPerUrl,
                 results, auditResult>>

\* The map() callback returns {url, groups}.
EndUrl ==
  /\ pc = "forEach"
  /\ taskIndex > Len(bootupTimings[urlIndex].durations)
  /\ groupsPerUrl' = Append(groupsPerUrl,
                            [url |-> bootupTimings[urlIndex].url,
                             groups |-> groups])
  /\ urlIndex' = urlIndex + 1
  /\ pc' = "map"
  /\ UNCHANGED <<tree, bootupTimings, taskIndex, totalBootupTime, extendedInfo,
                 headings, groups, results, auditResult>>

HeadingKeys(hs) == {hs[h].key : h \in 1..Len(hs)}

\* Variant: cells only for the categories the URL itself has.
RowOfOwnGroups(hs, entry) ==
  [k \in DOMAIN entry.groups \cup {"url"} |->
     IF k = "url" THEN entry.url
     ELSE formatMilliseconds(GetOrZero(entry.groups, k), 1)]

\* The callback of groupsPerUrl.map: one cell per heading, then res.url = url.
Row(hs, entry) ==
  [k \in HeadingKeys(hs) \cup {"url"} |->
     IF k = "url" THEN entry.url
     ELSE formatMilliseconds(GetOrZero(entry.groups, k), 1)]

\* const results = groupsPerUrl.map(...)
BuildResults ==
  /\ pc = "map"
  /\ urlIndex > Len(bootupTimings)
  /\ results' = [i \in 1..Len(groupsPerUrl) |-> Row(headings, groupsPerUrl[i])]
  /\ pc' = "return"
  /\ UNCHANGED <<tree, bootupTimings, urlIndex, taskIndex, totalBootupTime,
                 extendedInfo, headings, groups, groupsPerUrl, auditResult>>

\* Variant: <= in place of <.
ScoreAtMost(total) == total <= BootupThresholdMs * 10

\* score: totalBootupTime < 4000
Score(total) == total < BootupThresholdMs * 10

\* makeTableDetails and the return statement.
ReturnResult ==
  /\ pc = "return"
  /\ auditResult' =
       [score |-> Score(totalBootupTime),
        rawValue |-> totalBootupTime,
        displayValue |-> formatMilliseconds(totalBootupTime, 10),
        details |-> [headings |-> headings, items |-> results],
        extendedInfo |-> [value |-> extendedInfo]]
  /\ pc' = "done"
  /\ UNCHANGED <<tree, bootupTimings, urlIndex, taskIndex, totalBootupTime,
                 extendedInfo, headings, groups, groupsPerUrl, results>>

Next ==
  \/ GetExecutionTimingsByURL
  \/ BeginUrl
  \/ AggregateTask
  \/ EndUrl
  \/ BuildResults
  \/ ReturnResult

Spec == Init /\ [][Next]_vars

\* ------------------------------------------------------------------------
\* Definitions the properties are stated with
\* ------------------------------------------------------------------------

\* The task labels of an entry of bootupTimings.
Labels(durations) == {durations[t][1] : t \in 1..Len(durations)}

RECURSIVE CategoryTotal(_, _)
\* Sum of the durations of the tasks whose taxonomy lookup gives key.
CategoryTotal(durations, key) ==
  IF durations = <<>> THEN 0
  ELSE (IF TaskToGroupLookup(durations[1][1]) = key THEN durations[1][2] ELSE 0)
       + CategoryTotal(Tail(durations), key)

RECURSIVE UnmappedTotal(_)
\* Sum of the durations of the tasks whose label is no key of taskToGroup.
UnmappedTotal(durations) ==
  IF durations = <<>> THEN 0
  ELSE (IF durations[1][1] \in DOMAIN taskToGroup THEN 0 ELSE durations[1][2])
       + UnmappedTotal(Tail(durations))

RECURSIVE TasksBefore(_, _)
\* The tasks of the URLs before the u-th and the tasks of the u-th URL before
\* its t-th (all of them when t = 0), in processing order.
TasksBefore(u, t) ==
  IF u = 0 THEN <<>>
  ELSE TasksBefore(u - 1, 0)
       \o (IF t = 0 THEN bootupTimings[u].durations
           ELSE SubSeq(bootupTimings[u].durations, 1, t - 1))

\* The tasks the aggregation loop has processed, in processing order.
ProcessedTasks ==
  IF pc = "forEach" THEN TasksBefore(urlIndex, taskIndex)
  ELSE TasksBefore(urlIndex - 1, 0)

RECURSIVE SumOfGroups(_)
\* Sum of all category totals of the finished URLs.
SumOfGroups(gpu) ==
  IF gpu = <<>> THEN 0
  ELSE SumValues(gpu[1].groups) + SumOfGroups(Tail(gpu))

\* The URL keys of the tree that are neither empty nor about:blank, in order.
RetainedUrls ==
  LET Keep(node) == node.url # "" /\ node.url # "about:blank"
      kept == SelectSeq(tree, Keep)
  IN  [i \in 1..Len(kept) |-> kept[i].url]

Aggregating == pc \in {"map", "forEach", "return", "done"}

\* Position of the first task of a sequence of tasks whose lookup gives key.
FirstTaskOf(tasks, key) ==
  CHOOSE t \in 1..Len(tasks) :
    /\ TaskToGroupLookup(tasks[t][1]) = key
    /\ \A s \in 1..(t - 1) : TaskToGroupLookup(tasks[s][1]) # key

\* Sum over the category headings of the totals a row is formatted from.
RECURSIVE SumOverKeys(_, _)
SumOverKeys(gs, keys) ==
  IF keys = {} THEN 0
  ELSE LET k == CHOOSE x \in keys : TRUE
       IN  GetOrZero(gs, k) + SumOverKeys(gs, keys \ {k})

\* ------------------------------------------------------------------------
\* Properties
\* ------------------------------------------------------------------------

\* C1: at every step of the aggregation loop the running total equals the
\* sum of the extracted durations of the tasks processed so far, and equals
\* the sum of the category totals built so far; the returned rawValue is
\* the sum of all extracted durations of all retained URLs.
C1_TotalIsSumOfDurations ==
  /\ Aggregating =>
       /\ totalBootupTime = SumDurations(ProcessedTasks)
       /\ totalBootupTime =
            SumOfGroups(groupsPerUrl)
            + (IF pc = "forEach" THEN SumValues(groups) ELSE 0)
  /\ pc = "done" =>
       /\ ProcessedTasks = TasksBefore(Len(bootupTimings), 0)
       /\ auditResult.rawValue = SumDurations(ProcessedTasks)

C1_Witness ==
  /\ pc = "done"
  /\ Len(bootupTimings) = 2
  /\ auditResult.rawValue = 40001
  /\ bootupTimings[1].durations = <<<<"Function Call", 1>>>>
  /\ bootupTimings[2].durations = <<<<"Evaluate Script", 40000>>>>

\* C2: the URLs of the rows, and of the extracted map, are the URL keys of
\* the tree without "" and "about:blank", one row each, in the tree's order.
C2_RowsAreRetainedUrls ==
  /\ Aggregating =>
       [i \in 1..Len(bootupTimings) |-> bootupTimings[i].url] = RetainedUrls
  /\ pc = "done" =>
       /\ [i \in 1..Len(auditResult.details.items) |->
             auditResult.details.items[i].url] = RetainedUrls
       /\ ((\A n \in 1..Len(tree) : tree[n].url = "about:blank")
             => auditResult.details.items = <<>>)

C2_Witness ==
  /\ pc = "done"
  /\ Len(tree) = 1
  /\ tree[1].url = "about:blank"
  /\ Len(tree[1].children) = 2
  /\ auditResult.details.items = <<>>

\* C3: in every state the first heading has key "url" and no two headings
\* have the same key.
C3_HeadingsDistinctUrlFirst ==
  /\ headings[1].key = "url"
  /\ \A i, j \in 1..Len(headings) :
       i # j => headings[i].key # headings[j].key
  /\ pc = "done" => auditResult.details.headings = headings

C3_Witness ==
  /\ pc = "done"
  /\ Len(bootupTimings) = 2
  /\ \A i \in 1..2 : Labels(bootupTimings[i].durations) = {"Mystery Task"}
  /\ Len(auditResult.details.headings) = 2

C5_RowSumIsUrlTotal ==
  pc = "done" =>
    \A i \in 1..Len(groupsPerUrl) :
      Labels(bootupTimings[i].durations) \subseteq DOMAIN taskToGroup =>
        SumOverKeys(groupsPerUrl[i].groups,
                    HeadingKeys(auditResult.details.headings) \ {"url"})
          = SumDurations(bootupTimings[i].durations)

C5_Witness ==
  /\ pc = "done"
  /\ \E i \in 1..Len(groupsPerUrl) :
       /\ Labels(bootupTimings[i].durations) = {"Evaluate Script", "Function Call"}
       /\ groupsPerUrl[i].groups = [k \in {group.scripting} |-> 40001]

\* C6 as claimed: a task whose label is no key of taskToGroup counts in the
\* total, adds no heading, and no cell of the row of its URL holds it.
C6_UnmappedTaskHasNoColumn ==
  (pc = "done"
   /\ \E i \in 1..Len(bootupTimings) :
        ~(Labels(bootupTimings[i].durations) \subseteq DOMAIN taskToGroup)) =>
    /\ auditResult.rawValue = SumDurations(ProcessedTasks)
    /\ \A h \in 1..Len(auditResult.details.headings) :
         auditResult.details.headings[h].key \in
           {"url"} \cup {taskToGroup[t] : t \in DOMAIN taskToGroup}
    /\ \A i \in 1..Len(auditResult.details.items) :
         DOMAIN auditResult.details.items[i] \subseteq
           {"url"} \cup {taskToGroup[t] : t \in DOMAIN taskToGroup}

\* C6 as amended: a task whose label is no key of taskToGroup counts in the
\* total and is attributed to a column whose key is undefined: the headings
\* hold one entry with key and text undefined, and the cell "undefined" of
\* the row of its URL is the formatted sum of the URL's unmapped durations.
C6_UnmappedTaskGoesToUndefinedColumn ==
  pc = "done" =>
    \A i \in 1..Len(bootupTimings) :
      ~(Labels(bootupTimings[i].durations) \subseteq DOMAIN taskToGroup) =>
        /\ auditResult.rawValue = SumDurations(ProcessedTasks)
        /\ Cardinality({h \in 1..Len(auditResult.details.headings) :
                          auditResult.details.headings[h]
                            = [key |-> UndefinedKey, itemType |-> "text",
                               text |-> UndefinedKey]}) = 1
        /\ UndefinedKey \in DOMAIN groupsPerUrl[i].groups
        /\ groupsPerUrl[i].groups[UndefinedKey]
             = UnmappedTotal(bootupTimings[i].durations)
        /\ UndefinedKey \in DOMAIN auditResult.details.items[i]
        /\ auditResult.details.items[i][UndefinedKey]
             = formatMilliseconds(UnmappedTotal(bootupTimings[i].durations), 1)

C6_Witness ==
  /\ pc = "done"
  /\ Len(bootupTimings) = 1
  /\ Labels(bootupTimings[1].durations) = {"Mystery Task", "Evaluate Script"}
  /\ auditResult.rawValue = 80000
  /\ auditResult.details.items[1][UndefinedKey] = "4,000 ms"

\* C7: a retained URL node without a children collection does not make
\* getExecutionTimingsByURL fail; the URL is bound to an empty map and the
\* other URLs are extracted as usual.
C7_MissingChildrenGiveEmptyMap ==
  (pc # "getExecutionTimingsByURL"
   /\ \E n \in 1..Len(tree) :
        tree[n].url # "" /\ tree[n].url # "about:blank" /\ ~tree[n].hasChildren)
  => /\ pc # "TypeError"
     /\ Len(bootupTimings) = Len(RetainedUrls)
     /\ \A i \in 1..Len(bootupTimings) :
          \A n \in 1..Len(tree) :
            tree[n].url = bootupTimings[i].url =>
              /\ ~tree[n].hasChildren => bootupTimings[i].durations = <<>>
              /\ tree[n].hasChildren =>
                   bootupTimings[i].durations =
                     TasksOfChildren(tree[n].children, <<>>)

\* C8: the headings after "url" are the lookup results of the tasks of the
\* retained URLs, and one precedes another exactly when its first task is
\* processed before the first task of the other.
C8_HeadingsInFirstDiscoveryOrder ==
  Aggregating =>
    LET keys == [h \in 1..(Len(headings) - 1) |-> headings[h + 1].key]
        done == ProcessedTasks
    IN  /\ {keys[h] : h \in 1..Len(keys)}
             = {TaskToGroupLookup(done[t][1]) : t \in 1..Len(done)}
        /\ \A a, b \in 1..Len(keys) :
             a < b <=> FirstTaskOf(done, keys[a]) < FirstTaskOf(done, keys[b])

C8_Witness ==
  /\ pc = "done"
  /\ Len(bootupTimings) = 2
  /\ Len(headings) = 3
  /\ headings[2].key = group.scriptParseCompile
  /\ headings[3].key = group.scripting
  /\ Labels(bootupTimings[1].durations) = {"Parse Script"}
  /\ Labels(bootupTimings[2].durations) = {"Function Call"}

\* C9 as claimed: a category is in the groups of a URL only if its total for
\* that URL is not zero.
C9_OnlyNonzeroCategories ==
  /\ \A i \in 1..Len(groupsPerUrl) :
       \A k \in DOMAIN groupsPerUrl[i].groups : groupsPerUrl[i].groups[k] # 0
  /\ pc = "forEach" => \A k \in DOMAIN groups : groups[k] # 0

\* C9 as amended: a category is in the groups of a URL exactly when a task
\* of that URL maps to it, and its value is the sum of the durations of
\* those tasks, which is 0 when all of them are 0.
C9_CategoriesOfTasksPresent ==
  \A i \in 1..Len(groupsPerUrl) :
    /\ DOMAIN groupsPerUrl[i].groups
         = {TaskToGroupLookup(t) : t \in Labels(bootupTimings[i].durations)}
    /\ \A k \in DOMAIN groupsPerUrl[i].groups :
         groupsPerUrl[i].groups[k] = CategoryTotal(bootupTimings[i].durations, k)

C9_Witness ==
  /\ pc = "done"
  /\ Len(groupsPerUrl) = 1
  /\ bootupTimings[1].durations = <<<<"Parse Script", 0>>>>
  /\ groupsPerUrl[1].groups = [k \in {group.scriptParseCompile} |-> 0]
  /\ HasHeading(headings, group.scriptParseCompile)

\* C10: every row has one cell per key of the final headings; the cell of
\* "url" is the URL, every other cell is the formatted total of the URL for
\* that category, which is formatted zero when the URL has no such task.
C10_RowHasCellPerHeading ==
  pc = "done" =>
    /\ Len(auditResult.details.items) = Len(bootupTimings)
    /\ \A i \in 1..Len(auditResult.details.items) :
         LET row == auditResult.details.items[i]
         IN  /\ DOMAIN row = HeadingKeys(auditResult.details.headings)
             /\ row.url = bootupTimings[i].url
             /\ \A k \in DOMAIN row \ {"url"} :
                  /\ row[k] = formatMilliseconds(
                                CategoryTotal(bootupTimings[i].durations, k), 1)
                  /\ k \notin DOMAIN groupsPerUrl[i].groups =>
                       row[k] = "0 ms"

C10_Witness ==
  /\ pc = "done"
  /\ Len(auditResult.details.items) = 2
  /\ Labels(bootupTimings[1].durations) = {"Parse Script"}
  /\ Labels(bootupTimings[2].durations) = {"Evaluate Script"}
  /\ auditResult.details.items[1][group.scripting] = "0 ms"
  /\ auditResult.details.items[2][group.scripting] = "4,000 ms"
  /\ auditResult.details.items[1].url = "https://b.test/app.js"

====
